---- MODULE Spec2Model ----
(***************************************************************************)
(* Model of the simulation core of flappy-tui (src/src/main.rs): the Game  *)
(* struct, Game::new, resize, flap, update, check_collision, the tuning    *)
(* calls and pseudo_rand.                                                  *)
(*                                                                         *)
(* Numbers.  The f64 fields of Game are modelled as exact rationals in     *)
(* fixed point: a length, position or speed v is stored as the integer     *)
(* v * Unit with Unit = 480000, which makes every product the code forms   *)
(* (0.2 * ph / 48, 1.1 * pw / 80, 0.7 * pipe_gap, k / 1000 * range, ...)   *)
(* an integer for every integer resolution.  usize / u32 / u64 fields are  *)
(* plain integers.  u64 arithmetic of pseudo_rand is done on eight 8-bit   *)
(* limbs, little endian, so that it wraps at 2^64 as the code does.        *)
(* The rounding of f64 is not modelled, and sin() is tabulated to three    *)
(* decimals.                                                               *)
(***************************************************************************)
EXTENDS Integers, Sequences, FiniteSets, TLC

VARIABLES
    game,     \* the Game struct (main.rs 446-469), a record of its fields
    events,   \* what the last call returned: flap's Option<GameEvent> as a
              \* sequence of length <= 1, update's Vec<GameEvent>,
              \* check_collision's bool as a sequence of length 1
    op,       \* the last call made on the simulation: its name, its
              \* arguments and the State it was made in
    fault,    \* "none", or how the usize subtraction ph - ground_h ended
    tunes,    \* number of tuning calls made so far (bounded by MaxTunes)
    quiet,    \* TRUE once the player sends no more input (no key, no resize)
    mix,      \* a call of Rgb::lerp: its arguments a, b, t_256 and, once it
              \* has returned, its result out (<<>> before)
    rng,      \* calls of pseudo_rand on one seed: the seed (a u64 in limbs)
              \* and the results returned so far, in thousandths
    buf,      \* the PixelBuf (main.rs 163-167): w, h and the Vec px
    rend,     \* a call of PixelBuf::render: where it stands (pc, row, col),
              \* its locals, what its last step queued (sent) and how many
              \* cursor-home directives it has queued (homes)
    term,     \* the terminal: its modes and the colours in force (<<>> is
              \* the default colour)
    main      \* fn main (main.rs 964-1057): where it stands (pc), its locals
              \* event_buf and audio (is it Some), and for the frame in
              \* progress the events the simulation returned (emitted) and
              \* the events handed to the play_* functions (played), and
              \* whether the cleanup closure has been called (cleanup)

\* the state of the simulation core and of its caller's bookkeeping
core == <<game, events, op, fault, tunes>>

\* the state outside the simulation core
rest == <<quiet, mix, rng, buf, rend, term, main>>

vars == <<game, events, op, fault, tunes, quiet, mix, rng, buf, rend, term, main>>

\* ------------------------------------------------------------------ bounds

\* Spec: flap, update and resize, with update() called until the frame
\* counter has reached MaxFrame.
MaxFrame == 26

\* SpecTune: the tuning calls too, at most MaxTunes of them, with update()
\* called until the frame counter has reached MaxTuneFrame.
MaxTuneFrame == 8
MaxTunes == 1

\* SpecClamp: at most MaxClampTunes tuning calls, update() called until the
\* frame counter has reached MaxClampFrame, at the one height ClampHeight.
MaxClampTunes == 2
MaxClampFrame == 2
ClampHeight == 4 + 4

\* SpecFall: the player sends input until the frame counter has reached
\* MaxTuneFrame at the latest; once the input has stopped and while the bird
\* is in flight (Playing or Dying) update() is called for up to FallFrames
\* frames more.
FallFrames == 64

\* SpecMain: the frame loop of main, with update() called until the frame
\* counter has reached MaxMainFrame and at most MaxKeys events pushed by
\* flap keys within one frame.
MaxMainFrame == 24
MaxKeys == 2

\* SpecRand: pseudo_rand on the seeds 0..MaxSeed and on the 64-bit seeds
\* whose bytes are 0, 128 or 255.
MaxSeed == 149

\* SpecSpawn: update() called until the frame counter has reached
\* MaxSpawnFrame (MaxTuneFrame while Ready), at the one height SpawnHeight.
MaxSpawnFrame == 72
SpawnHeight == 48

\* The terminal sizes tried, as (pw, ph) = (cols, 2 * rows).
\* Widths: zero width and a narrow terminal.
\* Heights: 2 rows (ph < ground_h), 6 rows (the sky is lower than the gap
\* needs) and 24 rows; under SpecTune 2 rows and 4 rows (a game of a few
\* ticks).
Widths == {0, 10}
Heights == {4, 12, 48}
TuneHeights == {4, 8}

\* ------------------------------------------------------------- arithmetic

Unit == 48 * 10000

Max(a, b) == IF a >= b THEN a ELSE b
Min(a, b) == IF a <= b THEN a ELSE b

\* scale = ph as f64 / 48.0, times Unit
ScaleOf(h) == (h * Unit) \div 48

\* sin(frame * 0.08) in thousandths, rounded to the nearest, frame = 0..48
SinTable ==
    <<   0,   80,  159,  238,  315,  389,  462,  531,  597,  659,
       717,  771,  819,  862,  900,  932,  958,  978,  991,  999,
      1000,  994,  982,  964,  940,  909,  873,  831,  784,  732,
       675,  614,  549,  481,  409,  335,  259,  181,  101,   22,
       -58, -138, -217, -294, -369, -443, -513, -580, -643 >>

SinMilli(f) == SinTable[f + 1]

\* ------------------------------------------------------------ pseudo_rand

Bytes == 1..8

\* a u64 as eight limbs, least significant first
\* (the seeds of the model are frame counters below 2^31: limbs 5..8 are 0)
ToU64(n) ==
    [i \in Bytes |-> IF i <= 4 THEN (n \div (2 ^ (8 * (i - 1)))) % 256 ELSE 0]

\* 6364136223846793005 = 0x5851F42D4C957F2D
MulConst == <<45, 127, 149, 76, 45, 244, 81, 88>>

\* 1442695040888963407 = 0x14057B7EF767814F
AddConst == <<79, 129, 103, 247, 126, 123, 5, 20>>

RECURSIVE Column(_, _, _, _)
\* sum of a[j] * b[i + 1 - j] for j = 1..n: column i of the schoolbook product
Column(a, b, i, n) ==
    IF n = 0 THEN 0 ELSE a[n] * b[i + 1 - n] + Column(a, b, i, n - 1)

RECURSIVE Carry(_, _, _)
\* the limbs of the column sums cols, carries propagated, cut at 8 limbs
Carry(cols, i, c) ==
    IF i > 8 THEN <<>>
    ELSE CHOOSE limbs \in {<<sum % 256>> \o Carry(cols, i + 1, sum \div 256) :
                             sum \in {cols[i] + c}} : TRUE

\* u64::wrapping_mul
WrappingMul(a, b) == Carry([i \in Bytes |-> Column(a, b, i, i)], 1, 0)

\* u64::wrapping_add
WrappingAdd(a, b) == Carry([i \in Bytes |-> a[i] + b[i]], 1, 0)

RECURSIVE XorBits(_, _, _)
XorBits(a, b, n) ==
    IF n = 0 THEN 0
    ELSE ((a + b) % 2) + 2 * XorBits(a \div 2, b \div 2, n - 1)

\* a shift by 32, four whole limbs
Shr32(x) == [i \in Bytes |-> IF i + 4 <= 8 THEN x[i + 4] ELSE 0]

\* x >> 33: four whole limbs and one bit
Shr33(x) ==
    [i \in Bytes |->
        (IF i + 4 <= 8 THEN x[i + 4] \div 2 ELSE 0)
        + (IF i + 5 <= 8 THEN (x[i + 5] % 2) * 128 ELSE 0)]

XorU64(a, b) == [i \in Bytes |-> XorBits(a[i], b[i], 8)]

RECURSIVE ModThousand(_, _)
\* the limbs x[i..8] as a number, modulo 1000 (Horner, most significant first)
ModThousand(x, i) ==
    IF i > 8 THEN 0
    ELSE (ModThousand(x, i + 1) * 256 + x[i]) % 1000

\* pseudo_rand on a u64 seed given in limbs: bits % 1000, the result being
\* this many thousandths
Thousandths(seed) ==
    CHOOSE r \in
        {ModThousand(bits, 1) :
            bits \in {XorU64(Shr33(x), x) :
                x \in {WrappingAdd(m, AddConst) :
                    m \in {WrappingMul(seed, MulConst)}}}} : TRUE

\* pseudo_rand(seed) * 1000 for a seed below 2^31
pseudo_rand(seed) == Thousandths(ToU64(seed))

\* no call of pseudo_rand made
NoCall == [seed |-> ToU64(0), outs |-> <<>>]

\* ------------------------------------------------------------------- Game

\* f64 -> usize `as` cast of a non-negative fixed-point value: truncation
AsUsize(v) == IF v < 0 THEN 0 ELSE v \div Unit

\* a width factor without its minimum
WidthFactorNoFloor(w) == (w * Unit) \div 80

\* (pw as f64 / 80.0).max(0.8) of main.rs 498
WidthFactor(w) == Max((w * Unit) \div 80, (8 * Unit) \div 10)

\* the struct literal of Game::new (main.rs 473-500), bird_y still 0.0
NewFields(w, h) ==
    LET scale == ScaleOf(h) IN
    [ pw           |-> w,
      ph           |-> h,
      bird_y       |-> 0,
      bird_vy      |-> 0,
      pipes        |-> <<>>,
      score        |-> 0,
      best         |-> 0,
      state        |-> "Ready",
      frame        |-> 0,
      ground_x     |-> 0,
      dead_timer   |-> 0,
      show_hud     |-> FALSE,
      scale        |-> scale,
      ground_h     |-> AsUsize(Max(8 * scale, 6 * Unit)),
      pipe_w       |-> AsUsize(Min(Max(8 * scale, 5 * Unit), 14 * Unit)),
      pipe_gap     |-> AsUsize(Max(15 * scale, 11 * Unit)),
      bird_x       |-> Max((w * Unit * 22) \div 100, 10 * Unit),
      gravity      |-> (20 * scale) \div 100,
      flap_vel     |-> -2 * scale,
      pipe_speed   |-> (11 * WidthFactor(w)) \div 10,
      pipe_spacing |-> Max((w * Unit * 42) \div 100, 28 * Unit) ]

\* ph - ground_h on usize (main.rs 501, 513, 543) is below zero: the
\* subtraction panics when overflow checks are on (the dev profile) and
\* wraps to 2^64 + ph - ground_h when they are off (the release profile).
Underflows(g) == g.ph < g.ground_h

\* the rest position (ph - ground_h) as f64 * 0.4 of main.rs 501 and 543
RestY(g) == ((g.ph - g.ground_h) * Unit * 4) \div 10

\* Game::new where the subtraction does not underflow
New(w, h) == [NewFields(w, h) EXCEPT !.bird_y = RestY(NewFields(w, h))]

\* Game::sky_h, times Unit
sky_h(g) == (g.ph - g.ground_h) * Unit

\* a collision test in which the box may touch the ground line
check_collisionAboveGround(g) ==
    LET half_w == 2 * g.scale
        half_h == (15 * g.scale) \div 10
        HitsPipe(p) ==
            /\ g.bird_x + half_w > p.x
            /\ g.bird_x - half_w < p.x + g.pipe_w * Unit
            /\ \/ g.bird_y - half_h < p.gap_center - (g.pipe_gap * Unit) \div 2
               \/ g.bird_y + half_h > p.gap_center + (g.pipe_gap * Unit) \div 2
    IN  \/ g.bird_y + half_h > sky_h(g)
        \/ g.bird_y - half_h < 0
        \/ \E i \in 1..Len(g.pipes) : HitsPipe(g.pipes[i])

\* Game::check_collision
check_collision(g) ==
    LET bx == g.bird_x
        by == g.bird_y
        half_w == 2 * g.scale
        half_h == (15 * g.scale) \div 10
        pw == g.pipe_w * Unit
        HitsPipe(p) ==
            LET gap_top == p.gap_center - (g.pipe_gap * Unit) \div 2
                gap_bot == p.gap_center + (g.pipe_gap * Unit) \div 2
            IN  /\ bx + half_w > p.x
                /\ bx - half_w < p.x + pw
                /\ (by - half_h < gap_top \/ by + half_h > gap_bot)
    IN  \/ by + half_h >= sky_h(g)
        \/ by - half_h < 0
        \/ \E i \in 1..Len(g.pipes) : HitsPipe(g.pipes[i])

\* the gap centre of a pipe spawned at frame counter f (main.rs 556-559);
\* range is a multiple of Unit / 5, so range / 1000 is exact
SpawnCenter(g, f) ==
    LET sky == sky_h(g)
        margin == (g.pipe_gap * Unit * 7) \div 10
        range == sky - margin * 2
    IN  margin + pseudo_rand(f) * (range \div 1000)

\* a spawn test that leaves the spacing out
should_spawnUnspaced(g) ==
    \/ g.pipes = <<>>
    \/ g.pipes[Len(g.pipes)].x < g.pw * Unit

\* main.rs 553-554
should_spawn(g) ==
    \/ g.pipes = <<>>
    \/ g.pipes[Len(g.pipes)].x < g.pw * Unit - g.pipe_spacing

\* a scoring test on the leading edge of the pipe
PassedLeadingEdge(g, p) == p.x < g.bird_x

\* main.rs 571: the pipe, already moved, has its trailing edge left of the bird
Passed(g, p) == p.x + g.pipe_w * Unit < g.bird_x

\* main.rs 577: the pipe is kept
Retained(g, p) == p.x + g.pipe_w * Unit + 5 * Unit > 0

RECURSIVE Filter(_, _, _)
\* Vec::retain
Filter(s, g, i) ==
    IF i > Len(s) THEN <<>>
    ELSE (IF Retained(g, s[i]) THEN <<s[i]>> ELSE <<>>) \o Filter(s, g, i + 1)

\* a collision that dampens the current velocity instead of the impulse
OnCollisionDampsVelocity(g) ==
    [g EXCEPT !.state = "Dying",
              !.bird_vy = (g.bird_vy * 6) \div 10,
              !.best = IF g.score > g.best THEN g.score ELSE g.best]

\* a collision that records the score without the obstacle passed last
OnCollisionBestBehind(g) ==
    [g EXCEPT !.state = "Dying",
              !.bird_vy = (g.flap_vel * 6) \div 10,
              !.best = IF g.score - 1 > g.best THEN g.score - 1 ELSE g.best]

\* a collision that leaves the best score as it is
OnCollisionKeepsBest(g) ==
    [g EXCEPT !.state = "Dying",
              !.bird_vy = (g.flap_vel * 6) \div 10]

\* main.rs 581-585: what a collision does to the struct
OnCollision(g) ==
    [g EXCEPT !.state = "Dying",
              !.bird_vy = (g.flap_vel * 6) \div 10,
              !.best = IF g.score > g.best THEN g.score ELSE g.best]

RECURSIVE ScoreEvents(_)
ScoreEvents(n) == IF n = 0 THEN <<>> ELSE <<"Score">> \o ScoreEvents(n - 1)

\* the Playing arm of Game::update (main.rs 547-588); f is the frame
\* counter after its increment. The result is the new struct and the events.
\* The pipe list after the spawn and the struct after the scoring are bound
\* as values (the elements of one-element sets), each computed once.
UpdatePlaying(g, f) ==
    LET vy == g.bird_vy + g.gravity
        g1 == [g EXCEPT !.frame = f,
                        !.bird_vy = vy,
                        !.bird_y = g.bird_y + vy,
                        !.ground_x = g.ground_x + g.pipe_speed]
        spawn == should_spawn(g1)
        Spawned ==
            IF spawn
            THEN Append(g1.pipes, [x |-> g1.pw * Unit + 2 * Unit,
                                   gap_center |-> SpawnCenter(g1, f),
                                   scored |-> FALSE])
            ELSE g1.pipes
        Scored(spawned) ==
            LET moved == [i \in 1..Len(spawned) |->
                            [spawned[i] EXCEPT !.x = spawned[i].x - g1.pipe_speed]]
                newly == {i \in 1..Len(moved) :
                            ~moved[i].scored /\ Passed(g1, moved[i])}
                marked == [i \in 1..Len(moved) |->
                            IF i \in newly THEN [moved[i] EXCEPT !.scored = TRUE]
                            ELSE moved[i]]
            IN  [g1 EXCEPT !.pipes = Filter(marked, g1, 1),
                           !.score = g1.score + Cardinality(newly)]
        Outcome(g2) ==
            LET hit == check_collision(g2) IN
            [ g |-> IF hit THEN OnCollision(g2) ELSE g2,
              ev |-> (IF spawn THEN <<"Whoosh">> ELSE <<>>)
                     \o ScoreEvents(g2.score - g1.score)
                     \o (IF hit THEN <<"Death">> ELSE <<>>) ]
    IN  CHOOSE r \in {Outcome(g2) :
                        g2 \in {Scored(spawned) : spawned \in {Spawned}}} : TRUE

\* the Ready arm (main.rs 542-546)
UpdateReady(g, f) ==
    [g EXCEPT !.frame = f,
              !.bird_y = RestY(g) + (SinMilli(f) * 3 * g.scale) \div 1000,
              !.ground_x = g.ground_x + Unit \div 2]

\* a Dying arm that does not clamp the position to the ground threshold
UpdateDyingNoClamp(g, f) ==
    LET vy == g.bird_vy + g.gravity
        y == g.bird_y + vy
    IN  IF y >= sky_h(g) - 3 * Unit
        THEN [g EXCEPT !.frame = f, !.bird_vy = vy, !.bird_y = y,
                       !.state = "Dead", !.dead_timer = 0]
        ELSE [g EXCEPT !.frame = f, !.bird_vy = vy, !.bird_y = y]

\* a Dying arm that goes on scrolling the ground
UpdateDyingScrolls(g, f) ==
    LET vy == g.bird_vy + g.gravity
        y == g.bird_y + vy
        floor == sky_h(g) - 3 * Unit
    IN  IF y >= floor
        THEN [g EXCEPT !.frame = f, !.bird_vy = vy, !.bird_y = floor,
                       !.ground_x = g.ground_x + g.pipe_speed,
                       !.state = "Dead", !.dead_timer = 0]
        ELSE [g EXCEPT !.frame = f, !.bird_vy = vy, !.bird_y = y,
                       !.ground_x = g.ground_x + g.pipe_speed]

\* a Dying arm in which gravity no longer acts on the bird
UpdateDyingNoGravity(g, f) ==
    LET vy == g.bird_vy
        y == g.bird_y + vy
        floor == sky_h(g) - 3 * Unit
    IN  IF y >= floor
        THEN [g EXCEPT !.frame = f, !.bird_vy = vy, !.bird_y = floor,
                       !.state = "Dead", !.dead_timer = 0]
        ELSE [g EXCEPT !.frame = f, !.bird_vy = vy, !.bird_y = y]

\* the Dying arm (main.rs 589-597)
UpdateDying(g, f) ==
    LET vy == g.bird_vy + g.gravity
        y == g.bird_y + vy
        floor == sky_h(g) - 3 * Unit
    IN  IF y >= floor
        THEN [g EXCEPT !.frame = f, !.bird_vy = vy, !.bird_y = floor,
                       !.state = "Dead", !.dead_timer = 0]
        ELSE [g EXCEPT !.frame = f, !.bird_vy = vy, !.bird_y = y]

\* a Dead arm that goes back to Ready by itself
UpdateDeadRestarts(g, f) ==
    [g EXCEPT !.frame = f, !.dead_timer = g.dead_timer + 1, !.state = "Ready"]

\* the Dead arm (main.rs 598-600)
UpdateDead(g, f) == [g EXCEPT !.frame = f, !.dead_timer = g.dead_timer + 1]

\* -------------------------------------------------------------------- Rgb

\* the colours Rgb::lerp is called with (main.rs 651, 944-950), and the two
\* ends of the colour space
SKY_TOP == <<70, 180, 200>>
SKY_BOT == <<190, 232, 245>>
PIPE_L == <<74, 122, 26>>
PIPE_M == <<100, 170, 40>>
PIPE_R == <<115, 191, 46>>
PIPE_HI == <<145, 215, 62>>
BLACK == <<0, 0, 0>>
WHITE == <<255, 255, 255>>

LerpColours ==
    {SKY_TOP, SKY_BOT, PIPE_L, PIPE_M, PIPE_R, PIPE_HI, BLACK, WHITE}

\* the largest parameter a caller passes: (..).min(256) in pipe_shade
MaxParam == 256

\* a division that rounds down, as \div does
FloorDiv(n, d) == n \div d

\* i32 `/`: the quotient rounded toward zero
TruncDiv(n, d) == IF n >= 0 THEN n \div d ELSE -((-n) \div d)

\* i32 -> u8 `as` cast: the value modulo 256
AsU8(v) == v % 256

\* one channel of Rgb::lerp before the cast to u8
LerpRaw(a, b, t) == a + TruncDiv((b - a) * t, 256)

\* Rgb::lerp(a, b, t_256)
lerp(a, b, t) == [c \in 1..3 |-> AsU8(LerpRaw(a[c], b[c], t))]

\* --------------------------------------------------------------- PixelBuf

\* the colours of the pixels: the fill colour of new cells, the colour
\* render() starts its prev_fg and prev_bg with, and one more
Palette == {SKY_TOP, BLACK, WHITE}

\* PixelBuf::new
BufNew(w, h) == [w |-> w, h |-> h, px |-> [i \in 1..(w * h) |-> SKY_TOP]]

\* PixelBuf::resize: Vec::resize cuts the vector or extends it with SKY_TOP
BufResize(b, w, h) ==
    [w |-> w, h |-> h,
     px |-> [i \in 1..(w * h) |-> IF i <= Len(b.px) THEN b.px[i] ELSE SKY_TOP]]

\* a set that only tests the coordinates against the length of the vector
setUnclipped(b, x, y, c) ==
    IF y * b.w + x + 1 \in 1..Len(b.px)
    THEN [b EXCEPT !.px[y * b.w + x + 1] = c]
    ELSE b

\* PixelBuf::set
set(b, x, y, c) ==
    IF x >= 0 /\ y >= 0 /\ x < b.w /\ y < b.h
    THEN [b EXCEPT !.px[y * b.w + x + 1] = c]
    ELSE b

\* the index PixelBuf::get(x, y) reads is inside the vector
GetInBounds(b, x, y) == y * b.w + x + 1 \in 1..Len(b.px)

\* PixelBuf::get
get(b, x, y) == b.px[y * b.w + x + 1]

RECURSIVE FillFrom(_, _, _, _, _, _, _)
\* the loops of fill_rect from its k-th set call on (dy = k / w, dx = k % w)
FillFrom(b, x, y, w, h, c, k) ==
    IF k >= w * h THEN b
    ELSE CHOOSE r \in {FillFrom(b1, x, y, w, h, c, k + 1) :
                         b1 \in {set(b, x + (k % w), y + (k \div w), c)}} : TRUE

\* PixelBuf::fill_rect
fill_rect(b, x, y, w, h, c) ==
    IF w <= 0 \/ h <= 0 THEN b ELSE FillFrom(b, x, y, w, h, c, 0)

\* ----------------------------------------------------------------- render

\* the terminal before main() has touched it
Shell ==
    [raw |-> FALSE, alt |-> FALSE, hidden |-> FALSE, nowrap |-> FALSE,
     fg |-> <<>>, bg |-> <<>>]

\* enable_raw_mode, EnterAlternateScreen, Hide, DisableLineWrap (965-972)
Entered(t) ==
    [t EXCEPT !.raw = TRUE, !.alt = TRUE, !.hidden = TRUE, !.nowrap = TRUE]

\* the cleanup closure (974-982)
Restored(t) ==
    [t EXCEPT !.raw = FALSE, !.alt = FALSE, !.hidden = FALSE, !.nowrap = FALSE]

\* a directive queued to the terminal: its kind k and, for "fg" and "bg",
\* the colour c
Directive(k, c) == [k |-> k, c |-> c]

\* what the terminal does with one directive
Obey(t, d) ==
    CASE d.k = "fg" -> [t EXCEPT !.fg = d.c]
      [] d.k = "bg" -> [t EXCEPT !.bg = d.c]
      [] d.k = "reset" -> [t EXCEPT !.fg = <<>>, !.bg = <<>>]
      [] OTHER -> t

RECURSIVE ObeyAll(_, _, _)
\* the terminal after the directives ds[i..]
ObeyAll(t, ds, i) ==
    IF i > Len(ds) THEN t
    ELSE CHOOSE r \in {ObeyAll(t1, ds, i + 1) : t1 \in {Obey(t, ds[i])}} : TRUE

\* the number of cursor-home directives among ds
Homes(ds) == Cardinality({i \in 1..Len(ds) : ds[i].k = "home"})

\* no call of render() in progress
NotRendering ==
    [pc |-> "idle", row |-> 0, col |-> 0, prev_fg |-> BLACK, prev_bg |-> BLACK,
     need_fg |-> TRUE, need_bg |-> TRUE, sent |-> <<>>, homes |-> 0]

\* main.rs 203-210: cursor home, the locals, entry of the row loop
RenderEntry(b) ==
    [NotRendering EXCEPT
        !.pc = IF b.h \div 2 = 0 THEN "end" ELSE IF b.w = 0 THEN "eol" ELSE "cell",
        !.sent = <<Directive("home", <<>>)>>]

\* a cell that queues both colours whether or not they are in force
CellAlwaysSets(r, top, bot) ==
    [r EXCEPT !.prev_fg = top, !.prev_bg = bot,
              !.need_fg = FALSE, !.need_bg = FALSE,
              !.sent = <<Directive("fg", top), Directive("bg", bot),
                         Directive(IF top = bot THEN "space" ELSE "upper", <<>>)>>]

\* main.rs 217-249: the directives of one cell and the locals after it
Cell(r, top, bot) ==
    LET set_fg == top # bot /\ (r.need_fg \/ r.prev_fg # top)
        bg == IF top = bot THEN top ELSE bot
        set_bg == r.need_bg \/ r.prev_bg # bg
    IN  [r EXCEPT
            !.prev_fg = IF set_fg THEN top ELSE @,
            !.need_fg = IF set_fg THEN FALSE ELSE @,
            !.prev_bg = IF set_bg THEN bg ELSE @,
            !.need_bg = IF set_bg THEN FALSE ELSE @,
            !.sent = (IF set_fg THEN <<Directive("fg", top)>> ELSE <<>>)
                     \o (IF set_bg THEN <<Directive("bg", bg)>> ELSE <<>>)
                     \o <<Directive(IF top = bot THEN "space" ELSE "upper",
                                    <<>>)>>]

\* an end of row that resets the colours and goes on trusting prev_fg and
\* prev_bg
EndRowTrusts(r, rows) ==
    IF r.row < rows - 1
    THEN [r EXCEPT !.sent = <<Directive("reset", <<>>),
                              Directive("newline", <<>>)>>]
    ELSE [r EXCEPT !.sent = <<>>]

\* main.rs 252-259: after the last cell of a row that is not the last row
EndRow(r, rows) ==
    IF r.row < rows - 1
    THEN [r EXCEPT !.sent = <<Directive("reset", <<>>),
                              Directive("newline", <<>>)>>,
                   !.need_fg = TRUE, !.need_bg = TRUE]
    ELSE [r EXCEPT !.sent = <<>>]

\* ------------------------------------------------------------------- draw
\* What Game::draw does to the PixelBuf: the sky, the ground, the body of
\* the bird and the dark overlay of the game-over screen, with the
\* coordinates the code computes. GRASS_LIGHT and DIRT_DARK are drawn as
\* GRASS and DIRT. The hills, pipes, score, title, the details of the bird
\* and the game-over panel reach the PixelBuf through set and fill_rect
\* alone and are left out.

GRASS == <<84, 168, 55>>
DIRT == <<210, 185, 110>>
BIRD_Y == <<245, 200, 66>>

RECURSIVE SkyFrom(_, _, _)
\* the row loop of draw_sky from row y on
SkyFrom(g, b, y) ==
    LET rows == g.ph - g.ground_h IN
    IF y >= rows THEN b
    ELSE CHOOSE r \in
           {SkyFrom(g, b1, y + 1) :
              b1 \in {fill_rect(b, 0, y, g.pw, 1,
                                lerp(SKY_TOP, SKY_BOT,
                                     (y * 256) \div Max(rows, 1)))}} : TRUE

\* Game::draw_sky
draw_sky(g, b) == SkyFrom(g, b, 0)

\* Game::draw_ground
draw_ground(g, b) ==
    LET gy == g.ph - g.ground_h IN
    fill_rect(fill_rect(b, 0, gy, g.pw, 2, GRASS),
              0, gy + 2, g.pw, g.ph - (gy + 2), DIRT)

\* an f64 in fixed point `as i32`
AsI32(v) == TruncDiv(v, Unit)

RECURSIVE BodyFrom(_, _, _)
\* the row loop of the body of draw_bird (main.rs 752-772) from row on
BodyFrom(g, b, row) ==
    LET cx == AsI32(g.bird_x)
        cy == AsI32(g.bird_y)
        bw == AsI32(Max(3 * g.scale, 2 * Unit))
        bh == AsI32(Max(2 * g.scale, 2 * Unit))
        total_h == bh * 2
        corner == AsI32(Max(g.scale, Unit))
        inset == IF row < corner THEN corner - row
                 ELSE IF row >= total_h - corner
                      THEN row - (total_h - corner) + 1 ELSE 0
        half_w == bw - inset
    IN  IF row >= total_h THEN b
        ELSE CHOOSE r \in
               {BodyFrom(g, b1, row + 1) :
                  b1 \in {IF half_w > 0
                          THEN fill_rect(b, cx - half_w, cy - bh + row,
                                         half_w * 2 + 1, 1, BIRD_Y)
                          ELSE b}} : TRUE

\* Game::draw_bird
draw_bird(g, b) == BodyFrom(g, b, 0)

RECURSIVE OverlayFrom(_, _, _)
\* the loops of the dark overlay (main.rs 915-921) from their k-th pass on
\* (y = k / pw, x = k % pw): get the pixel, set it to half its value
OverlayFrom(g, b, k) ==
    IF k >= g.pw * g.ph THEN b
    ELSE CHOOSE r \in
           {OverlayFrom(g, b1, k + 1) :
              b1 \in {set(b, k % g.pw, k \div g.pw,
                          [i \in 1..3 |->
                             get(b, k % g.pw, k \div g.pw)[i] \div 2])}} : TRUE

\* does Game::draw draw the game-over screen
GameOverDrawn(g) == g.state = "Dead" /\ g.dead_timer > 15

\* one of the overlay's get calls indexes past the end of the Vec: a panic
OverlayPanics(g, b) ==
    \E x \in 0..(g.pw - 1), y \in 0..(g.ph - 1) : ~GetInBounds(b, x, y)

\* Game::draw
draw(g, b) ==
    LET drawn == draw_bird(g, draw_ground(g, draw_sky(g, b))) IN
    IF GameOverDrawn(g) THEN OverlayFrom(g, drawn, 0) ELSE drawn

\* ---------------------------------------------------------------- actions

Call(name, a, b) == [name |-> name, a |-> a, b |-> b, from |-> game.state]

\* the arms of Game::flap: the new struct and the Option<GameEvent> returned
FlapReady(g) ==
    [ g |-> [g EXCEPT !.state = "Playing", !.bird_vy = g.flap_vel],
      ev |-> <<"Flap">> ]

\* a flap that adds the impulse to the velocity instead of overwriting it
FlapPlayingAdds(g) ==
    [ g |-> [g EXCEPT !.bird_vy = g.bird_vy + g.flap_vel],
      ev |-> <<"Flap">> ]

FlapPlaying(g) ==
    [ g |-> [g EXCEPT !.bird_vy = g.flap_vel],
      ev |-> <<"Flap">> ]

\* a restart that resets the Playing-state fields only and keeps the
\* constants as they are
FlapDeadKeepsConstants(g) ==
    [ g |-> [g EXCEPT !.state = "Ready", !.bird_y = RestY(g), !.bird_vy = 0,
                      !.pipes = <<>>, !.score = 0, !.frame = 0,
                      !.ground_x = 0, !.dead_timer = 0],
      ev |-> <<>> ]

\* resize(self.pw, self.ph) with best saved and restored
FlapDead(g) ==
    [ g |-> [New(g.pw, g.ph) EXCEPT !.best = g.best],
      ev |-> <<>> ]

\* a flap that is obeyed while Dying
FlapDyingFlaps(g) == [ g |-> [g EXCEPT !.bird_vy = g.flap_vel], ev |-> <<>> ]

\* main.rs 533
FlapDying(g) == [ g |-> g, ev |-> <<>> ]

\* Game::new(w, h) at start-up (main.rs 989). Where ph - ground_h underflows
\* the call panics (the struct literal was built, bird_y never assigned) or
\* wraps: bird_y then holds 0.4 x (ph - ground_h), to which 0.4 x 2^64 is to
\* be added, a magnitude outside the model's integers; no further call is
\* modelled after either.
Start(w, h) ==
    /\ op = [name |-> "new", a |-> w, b |-> h, from |-> "Ready"]
    /\ events = <<>>
    /\ tunes = 0
    /\ IF Underflows(NewFields(w, h))
       THEN \/ fault = "panic" /\ game = NewFields(w, h)
            \/ fault = "wrap" /\ game = New(w, h)
       ELSE fault = "none" /\ game = New(w, h)

\* main() not entered
NotStarted ==
    [pc |-> "off", event_buf |-> <<>>, audio |-> FALSE, emitted |-> <<>>,
     played |-> <<>>, cleanup |-> FALSE]

\* what the specifications of the simulation core alone keep fixed
Parked ==
    /\ quiet = FALSE
    /\ mix = [a |-> SKY_TOP, b |-> SKY_TOP, t |-> 0, out |-> <<>>]
    /\ rng = NoCall
    /\ buf = BufNew(0, 0)
    /\ rend = NotRendering
    /\ term = Shell
    /\ main = NotStarted

Init == Parked /\ \E w \in Widths, h \in Heights : Start(w, h)

InitTune == Parked /\ \E w \in Widths, h \in TuneHeights : Start(w, h)

\* Game::resize(pw, ph): Game::new with best carried over. A panic in
\* Game::new leaves *self unassigned.
Resize(w, h) ==
    /\ fault = "none"
    /\ op' = Call("resize", w, h)
    /\ events' = <<>>
    /\ UNCHANGED tunes
    /\ IF Underflows(NewFields(w, h))
       THEN \/ fault' = "panic" /\ UNCHANGED game
            \/ fault' = "wrap" /\ game' = [New(w, h) EXCEPT !.best = game.best]
       ELSE fault' = "none" /\ game' = [New(w, h) EXCEPT !.best = game.best]

\* Game::flap
Flap ==
    /\ fault = "none"
    /\ op' = Call("flap", 0, 0)
    /\ UNCHANGED <<fault, tunes>>
    /\ LET r == CASE game.state = "Ready" -> FlapReady(game)
                   [] game.state = "Playing" -> FlapPlaying(game)
                   [] game.state = "Dead" -> FlapDead(game)
                   [] game.state = "Dying" -> FlapDying(game)
       IN  game' = r.g /\ events' = r.ev

\* Game::update, called while the frame counter is below limit
UpdateWithin(limit) ==
    /\ fault = "none"
    /\ game.frame < limit
    /\ op' = Call("update", 0, 0)
    /\ UNCHANGED <<fault, tunes>>
    /\ LET f == game.frame + 1 IN
       CASE game.state = "Ready" ->
              game' = UpdateReady(game, f) /\ events' = <<>>
         [] game.state = "Playing" ->
              game' = UpdatePlaying(game, f).g /\ events' = UpdatePlaying(game, f).ev
         [] game.state = "Dying" ->
              game' = UpdateDying(game, f) /\ events' = <<>>
         [] game.state = "Dead" ->
              game' = UpdateDead(game, f) /\ events' = <<>>

\* Game::tune_gravity(delta), delta in hundredths: main passes 0.02, -0.02.
\* The floor is 0.05 x scale.
tune_gravityNoFloor(g, delta) ==
    [g EXCEPT !.show_hud = TRUE,
              !.gravity = g.gravity + (delta * g.scale) \div 100]

tune_gravity(g, delta) ==
    [g EXCEPT !.show_hud = TRUE,
              !.gravity = Max(g.gravity + (delta * g.scale) \div 100,
                              (5 * g.scale) \div 100)]

\* Game::tune_flap(delta), delta in hundredths: main passes 0.2, -0.2.
\* The ceiling is -0.5 x scale.
tune_flap(g, delta) ==
    [g EXCEPT !.show_hud = TRUE,
              !.flap_vel = Min(g.flap_vel + (delta * g.scale) \div 100,
                               (-50 * g.scale) \div 100)]

\* the base speed of tune_speed: (pw / 80).max(0.8)
SpeedBase(g) == Max((g.pw * Unit) \div 80, (8 * Unit) \div 10)

\* Game::tune_speed(delta), delta in hundredths: main passes 0.1, -0.1.
\* The floor is 0.2 x base.
tune_speed(g, delta) ==
    [g EXCEPT !.show_hud = TRUE,
              !.pipe_speed = Max(g.pipe_speed + (delta * SpeedBase(g)) \div 100,
                                 (20 * SpeedBase(g)) \div 100)]

\* a tuning key (main.rs 1013-1018): the call `name` with argument delta,
\* whose result is the simulation tuned; at most limit of them are made
TuneWithin(limit, name, delta, tuned) ==
    /\ fault = "none"
    /\ tunes < limit
    /\ tunes' = tunes + 1
    /\ op' = Call(name, delta, 0)
    /\ events' = <<>>
    /\ UNCHANGED fault
    /\ game' = tuned

TuneGravity(delta) ==
    TuneWithin(MaxTunes, "tune_gravity", delta, tune_gravity(game, delta))

TuneFlap(delta) ==
    TuneWithin(MaxTunes, "tune_flap", delta, tune_flap(game, delta))

TuneSpeed(delta) ==
    TuneWithin(MaxTunes, "tune_speed", delta, tune_speed(game, delta))

Update == UpdateWithin(MaxFrame)

UpdateTune == UpdateWithin(MaxTuneFrame)

Next ==
    \/ Flap /\ UNCHANGED rest
    \/ Update /\ UNCHANGED rest
    \/ \E w \in Widths, h \in Heights : Resize(w, h) /\ UNCHANGED rest

Spec == Init /\ [][Next]_vars

\* the keys of main.rs 1013-1018
NextTune ==
    \/ Flap /\ UNCHANGED rest
    \/ UpdateTune /\ UNCHANGED rest
    \/ \E w \in Widths, h \in TuneHeights : Resize(w, h) /\ UNCHANGED rest
    \/ \E d \in {2, -2} : TuneGravity(d) /\ UNCHANGED rest
    \/ \E d \in {20, -20} : TuneFlap(d) /\ UNCHANGED rest
    \/ \E d \in {10, -10} : TuneSpeed(d) /\ UNCHANGED rest

SpecTune == InitTune /\ [][NextTune]_vars

\* SpecClamp: the tuning calls with the arguments main passes and with one
\* large argument each, which takes the value past its floor in one call
\* (as eight to ten presses of the key do).
ClampGravity(delta) ==
    TuneWithin(MaxClampTunes, "tune_gravity", delta, tune_gravity(game, delta))

ClampFlap(delta) ==
    TuneWithin(MaxClampTunes, "tune_flap", delta, tune_flap(game, delta))

ClampSpeed(delta) ==
    TuneWithin(MaxClampTunes, "tune_speed", delta, tune_speed(game, delta))

UpdateClamp == UpdateWithin(MaxClampFrame)

InitClamp == Parked /\ \E w \in Widths : Start(w, ClampHeight)

NextClamp ==
    \/ Flap /\ UNCHANGED rest
    \/ UpdateClamp /\ UNCHANGED rest
    \/ \E w \in Widths : Resize(w, ClampHeight) /\ UNCHANGED rest
    \/ \E d \in {2, -2, -20} : ClampGravity(d) /\ UNCHANGED rest
    \/ \E d \in {20, -20, 200} : ClampFlap(d) /\ UNCHANGED rest
    \/ \E d \in {10, -10, -100} : ClampSpeed(d) /\ UNCHANGED rest

SpecClamp == InitClamp /\ [][NextClamp]_vars

\* the resolutions of SpecFall: at 80 x 48 the bird can fall to the ground
\* (at height 8 it hits the ceiling two ticks after any flap, at width 0 the
\* pipes spawn on the bird's column)
FallWidths == {0, 80}
FallHeights == {4, 8, 48}

\* SpecFall: the frame loop calls update() once per frame, whatever the
\* player does (main.rs 1032); the player flaps and resizes until he stops.
FallFlap == ~quiet /\ Flap /\ UNCHANGED rest

FallResize(w, h) == ~quiet /\ Resize(w, h) /\ UNCHANGED rest

\* the player sends no more input from here on
Stop == ~quiet /\ quiet' = TRUE /\ UNCHANGED <<core, mix, rng, buf, rend, term, main>>

UpdateFall ==
    /\ UpdateWithin(IF quiet /\ game.state \in {"Playing", "Dying"}
                    THEN MaxTuneFrame + FallFrames ELSE MaxTuneFrame)
    /\ UNCHANGED rest

NextFall ==
    \/ FallFlap
    \/ UpdateFall
    \/ \E w \in FallWidths, h \in FallHeights : FallResize(w, h)
    \/ Stop

InitFall == Parked /\ \E w \in FallWidths, h \in FallHeights : Start(w, h)

SpecFall == InitFall /\ [][NextFall]_vars /\ WF_vars(UpdateFall)

\* SpecLerp: one call of Rgb::lerp on arguments drawn from LerpColours and
\* 0..MaxParam
InitLerp ==
    /\ Start(0, ClampHeight)
    /\ quiet = FALSE
    /\ rng = NoCall
    /\ buf = BufNew(0, 0)
    /\ rend = NotRendering
    /\ term = Shell
    /\ main = NotStarted
    /\ \E a \in LerpColours, b \in LerpColours, t \in 0..MaxParam :
          mix = [a |-> a, b |-> b, t |-> t, out |-> <<>>]

Lerp ==
    /\ mix.out = <<>>
    /\ mix' = [mix EXCEPT !.out = lerp(mix.a, mix.b, mix.t)]
    /\ UNCHANGED <<core, quiet, rng, buf, rend, term, main>>

SpecLerp == InitLerp /\ [][Lerp]_vars

\* SpecRender: a PixelBuf of a few cells, drawn on with set and fill_rect,
\* resized, and rendered cell by cell; any write of render() may fail.
BufWidths == {0, 1, 2}
BufHeights == {0, 2, 4}

InitRender ==
    /\ Start(0, ClampHeight)
    /\ quiet = FALSE
    /\ mix = [a |-> SKY_TOP, b |-> SKY_TOP, t |-> 0, out |-> <<>>]
    /\ rng = NoCall
    /\ \E w \in BufWidths, h \in BufHeights : buf = BufNew(w, h)
    /\ rend = NotRendering
    /\ term = Entered(Shell)
    /\ main = NotStarted

\* a call on the PixelBuf between two calls of render()
BufCall(after) ==
    /\ rend.pc = "idle"
    /\ buf' = after
    /\ UNCHANGED <<core, quiet, mix, rng, rend, term, main>>

SetPixel(x, y, c) == BufCall(set(buf, x, y, c))

FillRect(x, y, w, h, c) == BufCall(fill_rect(buf, x, y, w, h, c))

ResizeBuf(w, h) == BufCall(BufResize(buf, w, h))

\* a step of render(): its locals after the step, with the terminal obeying
\* what the step queued
RenderStep(after) ==
    /\ rend' = [after EXCEPT !.homes = after.homes + Homes(after.sent)]
    /\ term' = ObeyAll(term, after.sent, 1)
    /\ UNCHANGED <<core, quiet, mix, rng, buf, main>>

RenderBegin == rend.pc = "idle" /\ RenderStep(RenderEntry(buf))

\* one pass of the column loop (main.rs 213-250)
RenderCell ==
    /\ rend.pc = "cell"
    /\ LET top == get(buf, rend.col, rend.row * 2)
           bot == get(buf, rend.col, rend.row * 2 + 1)
       IN  RenderStep([Cell(rend, top, bot) EXCEPT
                         !.col = rend.col + 1,
                         !.pc = IF rend.col + 1 < buf.w THEN "cell" ELSE "eol"])

\* the end of one pass of the row loop (main.rs 252-259)
RenderEndRow ==
    /\ rend.pc = "eol"
    /\ LET rows == buf.h \div 2 IN
       RenderStep([EndRow(rend, rows) EXCEPT
                     !.row = rend.row + 1,
                     !.col = 0,
                     !.pc = IF rend.row + 1 >= rows THEN "end"
                            ELSE IF buf.w = 0 THEN "eol" ELSE "cell"])

\* main.rs 262-264: the final ResetColor and the flush
RenderEnd ==
    /\ rend.pc = "end"
    /\ RenderStep([NotRendering EXCEPT
                      !.sent = <<Directive("reset", <<>>)>>])

\* a write fails: render() returns the error (the ? of queue! and flush)
RenderFail ==
    /\ rend.pc \in {"idle", "cell", "eol", "end"}
    /\ rend' = [rend EXCEPT !.pc = "failed", !.sent = <<>>]
    /\ UNCHANGED <<core, quiet, mix, rng, buf, term, main>>

NextRender ==
    \/ \E x \in -1..2, y \in -1..4, c \in Palette : SetPixel(x, y, c)
    \/ \E x \in {-1, 1}, y \in {-1, 1}, w \in 0..2, h \in 0..2 :
          FillRect(x, y, w, h, WHITE)
    \/ \E w \in BufWidths, h \in BufHeights : ResizeBuf(w, h)
    \/ RenderBegin
    \/ RenderCell
    \/ RenderEndRow
    \/ RenderEnd
    \/ RenderFail

SpecRender == InitRender /\ [][NextRender]_vars

\* SpecMain: fn main from the top of its frame loop on. The terminal is
\* StartCols x StartRows when main asks for its size and is resized to
\* MainCols x MainRows; the audio device opens or does not. The tuning keys
\* (main.rs 1013-1018), which return no event and touch neither the
\* PixelBuf nor the terminal, are pressed under SpecTune and not here.
StartCols == 2
StartRows == 4
MainCols == {0, 2}
MainRows == {2, 3, 4}

\* main.rs 964-993: raw mode and the alternate screen entered, buf and game
\* made for the terminal's size, audio opened or not, the first frame begun
InitMain ==
    /\ quiet = FALSE
    /\ mix = [a |-> SKY_TOP, b |-> SKY_TOP, t |-> 0, out |-> <<>>]
    /\ rng = NoCall
    /\ rend = NotRendering
    /\ term = Entered(Shell)
    /\ buf = BufNew(StartCols, StartRows * 2)
    /\ Start(StartCols, StartRows * 2)
    /\ \E a \in BOOLEAN : main = [NotStarted EXCEPT !.pc = "poll", !.audio = a]

\* a dispatch that hands the events over last to first
DispatchReversed(m) ==
    IF m.audio
    THEN [m EXCEPT !.played = [i \in 1..Len(m.event_buf) |->
                                  m.event_buf[Len(m.event_buf) + 1 - i]],
                   !.event_buf = <<>>]
    ELSE [m EXCEPT !.event_buf = <<>>]

\* main.rs 1034-1045: with a device each drained event goes to its play_*
\* function, without one the events are cleared
Dispatch(m) ==
    IF m.audio
    THEN [m EXCEPT !.played = m.event_buf, !.event_buf = <<>>]
    ELSE [m EXCEPT !.event_buf = <<>>]

\* main takes evs from the simulation into event_buf (push, extend)
Taken(m, evs) ==
    [m EXCEPT !.event_buf = m.event_buf \o evs, !.emitted = m.emitted \o evs]

\* a flap key (main.rs 1007-1011)
MainFlapKey ==
    /\ main.pc = "poll"
    /\ Len(main.event_buf) < MaxKeys
    /\ Flap
    /\ main' = Taken(main, events')
    /\ UNCHANGED <<quiet, mix, rng, buf, rend, term>>

\* Event::Resize(c, r) (main.rs 1021-1026): buf.resize, then game.resize,
\* which may panic
MainResize(c, r) ==
    /\ main.pc = "poll"
    /\ Resize(c, r * 2)
    /\ buf' = BufResize(buf, c, r * 2)
    /\ main' = [main EXCEPT !.pc = IF fault' = "panic" THEN "panicked" ELSE @]
    /\ UNCHANGED <<quiet, mix, rng, rend, term>>

\* the quit key (main.rs 1003-1006): the cleanup closure is called and main
\* returns what it returns; its execute! or its disable_raw_mode may fail
MainQuit ==
    /\ main.pc = "poll"
    /\ fault = "none"
    /\ \/ /\ term' = Restored(term)
          /\ main' = [main EXCEPT !.pc = "returned_ok", !.cleanup = TRUE]
       \/ /\ term' \in {term, [Restored(term) EXCEPT !.raw = TRUE]}
          /\ main' = [main EXCEPT !.pc = "returned_err", !.cleanup = TRUE]
    /\ UNCHANGED <<core, quiet, mix, rng, buf, rend>>

\* event::poll or event::read returns an error (the ? of main.rs 1000, 1001)
MainInputFails ==
    /\ main.pc = "poll"
    /\ fault = "none"
    /\ main' = [main EXCEPT !.pc = "returned_err"]
    /\ UNCHANGED <<core, quiet, mix, rng, buf, rend, term>>

\* no event is pending: update, the dispatch of the events and draw
\* (main.rs 1032-1048)
MainTick ==
    /\ main.pc = "poll"
    /\ UpdateWithin(MaxMainFrame)
    /\ IF GameOverDrawn(game') /\ OverlayPanics(game', buf)
       THEN /\ main' = [Dispatch(Taken(main, events')) EXCEPT !.pc = "panicked"]
            /\ UNCHANGED buf
       ELSE /\ main' = [Dispatch(Taken(main, events')) EXCEPT !.pc = "render"]
            /\ buf' = draw(game', buf)
    /\ UNCHANGED <<quiet, mix, rng, rend, term>>

\* buf.render succeeds (main.rs 1049): the frame ends and the next begins
\* with event_buf.clear() (main.rs 997)
MainRender ==
    /\ main.pc = "render"
    /\ main' = [main EXCEPT !.pc = "poll", !.event_buf = <<>>,
                            !.emitted = <<>>, !.played = <<>>]
    /\ UNCHANGED <<core, quiet, mix, rng, buf, rend, term>>

\* buf.render returns an error (the ? of main.rs 1049)
MainRenderFails ==
    /\ main.pc = "render"
    /\ main' = [main EXCEPT !.pc = "returned_err"]
    /\ UNCHANGED <<core, quiet, mix, rng, buf, rend, term>>

NextMain ==
    \/ MainFlapKey
    \/ \E c \in MainCols, r \in MainRows : MainResize(c, r)
    \/ MainQuit
    \/ MainInputFails
    \/ MainTick
    \/ MainRender
    \/ MainRenderFails

SpecMain == InitMain /\ [][NextMain]_vars

\* SpecSpawn: long games at 80 x 48, where a second pipe is spawned 33
\* ticks after the first, and at 0 x 48, where the one pipe is removed before
\* the next is due. The player starts a game within the first frame and then
\* flaps only while the bird is below the line SpawnFlapLine, 20 pixels down.
SpawnWidths == {0, 80}
SpawnFlapLine == 20 * Unit

SpawnFlap ==
    /\ game.state = "Ready" => game.frame <= 1
    /\ game.state = "Playing" => game.bird_y >= SpawnFlapLine
    /\ Flap
    /\ UNCHANGED rest

UpdateSpawn ==
    /\ UpdateWithin(IF game.state = "Ready" THEN MaxTuneFrame
                    ELSE MaxSpawnFrame)
    /\ UNCHANGED rest

SpawnResize(w) == Resize(w, SpawnHeight) /\ UNCHANGED rest

InitSpawn == Parked /\ \E w \in SpawnWidths : Start(w, SpawnHeight)

NextSpawn ==
    \/ SpawnFlap
    \/ UpdateSpawn
    \/ \E w \in SpawnWidths : SpawnResize(w)

SpecSpawn == InitSpawn /\ [][NextSpawn]_vars

\* SpecCollide: one call of check_collision at 80 x 48 (scale 1, the sky 40
\* high, the box 4 x 3, the pipes 8 wide with a gap of 15), on a bird at any
\* half pixel from -1.0 to 41.0 and on no pipe, one pipe or two pipes, each
\* with an edge at, half a pixel before or half a pixel past an edge of the
\* box, or across the bird.
CollideBirdY == {k * (Unit \div 2) : k \in -2..82}

CollidePipes ==
    LET g == New(80, 48)
        xs == {g.bird_x} \cup
              {edge + d * (Unit \div 2) :
                 edge \in {g.bird_x + 2 * g.scale,
                           g.bird_x - 2 * g.scale - g.pipe_w * Unit},
                 d \in {-1, 0, 1}}
    IN  {[x |-> x, gap_center |-> c * Unit, scored |-> FALSE] :
           x \in xs, c \in {12, 20, 28, 33}}

InitCollide ==
    /\ Parked
    /\ fault = "none"
    /\ tunes = 0
    /\ events = <<>>
    /\ op = [name |-> "new", a |-> 80, b |-> 48, from |-> "Ready"]
    /\ \E y \in CollideBirdY,
          ps \in {<<>>} \cup {<<p>> : p \in CollidePipes}
                        \cup {<<p, q>> : p \in CollidePipes, q \in CollidePipes} :
          game = [New(80, 48) EXCEPT !.state = "Playing", !.bird_y = y,
                                     !.pipes = ps]

\* the call: events holds the bool returned
Collide ==
    /\ op.name = "new"
    /\ op' = Call("check_collision", 0, 0)
    /\ events' = <<check_collision(game)>>
    /\ UNCHANGED <<game, fault, tunes, rest>>

SpecCollide == InitCollide /\ [][Collide]_vars

\* SpecRand: two calls of pseudo_rand on one seed
RandSeeds == {ToU64(n) : n \in 0..MaxSeed} \cup [Bytes -> {0, 255}]
                \cup {[i \in Bytes |-> IF i = k THEN 128 ELSE 0] : k \in Bytes}

InitRand ==
    /\ Start(0, ClampHeight)
    /\ quiet = FALSE
    /\ mix = [a |-> SKY_TOP, b |-> SKY_TOP, t |-> 0, out |-> <<>>]
    /\ buf = BufNew(0, 0)
    /\ rend = NotRendering
    /\ term = Shell
    /\ main = NotStarted
    /\ \E seed \in RandSeeds : rng = [seed |-> seed, outs |-> <<>>]

Rand ==
    /\ Len(rng.outs) < 2
    /\ rng' = [rng EXCEPT !.outs = Append(@, Thousandths(rng.seed))]
    /\ UNCHANGED <<core, quiet, mix, buf, rend, term, main>>

SpecRand == InitRand /\ [][Rand]_vars

\* ----------------------------------------------------------------- claims

\* the number of events e in a returned sequence
Count(evs, e) == Cardinality({i \in 1..Len(evs) : evs[i] = e})

\* C1: a flap() made in state Ready or Playing leaves the state Playing,
\* sets the velocity to exactly the impulse flap_vel of that moment
\* (overwriting the old velocity, not adding to it) and returns exactly one
\* Flap event.
C1_FlapSetsImpulse ==
    [][ (op'.name = "flap" /\ game.state \in {"Ready", "Playing"})
        => /\ game'.state = "Playing"
           /\ game'.bird_vy = game.flap_vel
           /\ events' = <<"Flap">> ]_vars

\* a flap made in Playing, after ticks have changed the velocity, with a
\* tuned impulse
C1_Witness ==
    /\ op.name = "flap"
    /\ op.from = "Playing"
    /\ game.frame > 1
    /\ game.state = "Playing"
    /\ game.flap_vel # -2 * game.scale
    /\ game.bird_vy = game.flap_vel
    /\ events = <<"Flap">>

\* C2: a Playing tick after whose movement the collision test is true sets
\* the state to Dying, the velocity to 0.6 x flap_vel, raises best to
\* score if score > best and leaves it otherwise, and emits exactly one
\* Death event; a Playing tick after which the test is false keeps the state
\* Playing and emits no Death event.
C2_CollisionTick ==
    [][ (op'.name = "update" /\ game.state = "Playing")
        => IF check_collision(game')
           THEN /\ game'.state = "Dying"
                /\ 10 * game'.bird_vy = 6 * game.flap_vel
                /\ game'.best = IF game'.score > game.best THEN game'.score
                                ELSE game.best
                /\ Count(events', "Death") = 1
           ELSE /\ game'.state = "Playing"
                /\ game'.best = game.best
                /\ Count(events', "Death") = 0 ]_vars

\* a collision tick that raised best, with a tuned impulse
C2_Witness ==
    /\ op.name = "update"
    /\ op.from = "Playing"
    /\ game.state = "Dying"
    /\ game.flap_vel # -2 * game.scale
    /\ game.score > 0
    /\ game.best = game.score
    /\ Count(events, "Death") = 1

\* C3: a Dying tick moves to Dead exactly when the position it computes
\* reaches or passes the ground threshold sky_h - 3, and then the position
\* is the threshold exactly and dead_timer is 0; otherwise the state stays
\* Dying. Every Dead tick adds exactly 1 to dead_timer and leaves the
\* position on the threshold.
C3_DyingToDead ==
    /\ [][ (op'.name = "update" /\ game.state = "Dying")
           => LET y == game.bird_y + game.bird_vy + game.gravity
                  threshold == (game.ph - game.ground_h - 3) * Unit
              IN  IF y >= threshold
                  THEN /\ game'.state = "Dead"
                       /\ game'.bird_y = threshold
                       /\ game'.dead_timer = 0
                  ELSE /\ game'.state = "Dying"
                       /\ game'.bird_y = y ]_vars
    /\ [][ (op'.name = "update" /\ game.state = "Dead")
           => /\ game'.state = "Dead"
              /\ game'.dead_timer = game.dead_timer + 1
              /\ game'.bird_y = game.bird_y ]_vars
    /\ [](game.state = "Dead"
          => game.bird_y = (game.ph - game.ground_h - 3) * Unit)

\* Dead for two ticks, in a life that was Dying for at least ten ticks
\* (the velocity has grown by ten times the gravity from 0.6 x flap_vel)
C3_Witness ==
    /\ op.name = "update"
    /\ game.state = "Dead"
    /\ game.dead_timer = 2
    /\ 10 * game.bird_vy >= 6 * game.flap_vel + 100 * game.gravity

\* C4: a flap() made in state Dead leaves the state Ready, the position at
\* the rest position, the velocity 0, the obstacle list empty, score 0, the
\* frame counter 0 and every derived constant at the value Game::new
\* computes from the current resolution; best keeps its value and no event
\* is returned.
C4_RestartResets ==
    [][ (op'.name = "flap" /\ game.state = "Dead")
        => LET fresh == NewFields(game.pw, game.ph) IN
           /\ game'.state = "Ready"
           /\ 10 * game'.bird_y = 4 * (game.ph - game.ground_h) * Unit
           /\ game'.bird_vy = 0
           /\ game'.pipes = <<>>
           /\ game'.score = 0
           /\ game'.frame = 0
           /\ \A k \in {"pw", "ph", "scale", "ground_h", "pipe_w", "pipe_gap",
                        "bird_x", "gravity", "flap_vel", "pipe_speed",
                        "pipe_spacing"} : game'[k] = fresh[k]
           /\ game'.best = game.best
           /\ events' = <<>> ]_vars

\* a restart after a death with a score, in a process that has tuned
C4_Witness ==
    /\ op.name = "flap"
    /\ op.from = "Dead"
    /\ game.state = "Ready"
    /\ game.best > 0
    /\ tunes > 0
    /\ events = <<>>

\* C5: a flap() made in state Dying changes no field of the simulation and
\* returns no event.
C5_FlapWhileDyingIgnored ==
    [][ (op'.name = "flap" /\ game.state = "Dying")
        => (game' = game /\ events' = <<>>) ]_vars

\* a flap made while Dying, some ticks after the collision
C5_Witness ==
    /\ op.name = "flap"
    /\ op.from = "Dying"
    /\ game.state = "Dying"
    /\ game.bird_vy > 0
    /\ events = <<>>

\* the constants Game::new derives from a resolution
Derived ==
    {"pw", "ph", "scale", "ground_h", "pipe_w", "pipe_gap", "bird_x",
     "gravity", "flap_vel", "pipe_speed", "pipe_spacing"}

\* C6: a resize(pw, ph) made in any state leaves the state Ready, score 0,
\* the obstacle list empty, the frame counter 0 and the derived constants at
\* the values computed from the new resolution, and best as it was.
C6_ResizeResets ==
    [][ op'.name = "resize"
        => /\ game'.state = "Ready"
           /\ game'.score = 0
           /\ game'.pipes = <<>>
           /\ game'.frame = 0
           /\ \A k \in Derived : game'[k] = NewFields(op'.a, op'.b)[k]
           /\ game'.best = game.best ]_vars

\* C6, of the calls that return: the same, for every resize that does not
\* panic in ph - ground_h
C6_ResizeResetsIfReturns ==
    [][ (op'.name = "resize" /\ fault' # "panic")
        => /\ game'.state = "Ready"
           /\ game'.score = 0
           /\ game'.pipes = <<>>
           /\ game'.frame = 0
           /\ \A k \in Derived : game'[k] = NewFields(op'.a, op'.b)[k]
           /\ game'.best = game.best ]_vars

\* C7: a pipe of the list is marked scored exactly when its trailing edge
\* x + pipe_w is strictly left of bird_x, so it is marked in the first tick
\* that moves it there and not before. A Playing tick adds to the score one
\* for each pipe that was not marked and that the tick moves there (a pipe
\* the tick spawns included), with one Score event each, so no pipe counts
\* twice; no other step changes the score but to reset it to 0.
C7_ScoredOnce ==
    /\ [](\A i \in 1..Len(game.pipes) :
            game.pipes[i].scored
            <=> game.pipes[i].x + game.pipe_w * Unit < game.bird_x)
    /\ [][ (op'.name = "update" /\ game.state = "Playing")
           => LET edge == game.pipe_w * Unit - game.pipe_speed
                  due == {i \in 1..Len(game.pipes) :
                            /\ ~game.pipes[i].scored
                            /\ game.pipes[i].x + edge < game.bird_x}
                  born == IF /\ Count(events', "Whoosh") = 1
                             /\ (game.pw + 2) * Unit + edge < game.bird_x
                          THEN 1 ELSE 0
              IN  /\ game'.score = game.score + Cardinality(due) + born
                  /\ Count(events', "Score") = Cardinality(due) + born ]_vars
    /\ [][ ~(op'.name = "update" /\ game.state = "Playing")
           => /\ game'.score = game.score \/ game'.score = 0
              /\ Count(events', "Score") = 0 ]_vars

\* a pipe scored in a tick later than the one that spawned it, and still in
\* the list
C7_Witness ==
    /\ op.name = "update"
    /\ events = <<"Score">>
    /\ game.score = 1
    /\ Len(game.pipes) = 1
    /\ game.pipes[1].scored

\* C9: every pipe of the list has its gap centre within
\* [margin, sky_h - margin], margin = 0.7 x pipe_gap, and its gap interval
\* strictly inside (0, sky_h).
C9_GapInsideSky ==
    \A i \in 1..Len(game.pipes) :
        LET margin == (game.pipe_gap * Unit * 7) \div 10
            half == (game.pipe_gap * Unit) \div 2
            c == game.pipes[i].gap_center
        IN  /\ margin <= c
            /\ c <= sky_h(game) - margin
            /\ c - half > 0
            /\ c + half < sky_h(game)

\* C9, of the resolutions whose sky is at least 1.4 x pipe_gap high
C9_GapInsideTallSky ==
    10 * (game.ph - game.ground_h) >= 14 * game.pipe_gap => C9_GapInsideSky

\* C10: for every resolution Game::new, resize, flap and update complete
\* without an arithmetic fault, and every constant derived from the
\* resolution is at or above its minimum.
C10_NoArithmeticFault ==
    /\ fault = "none"
    /\ game.ground_h >= 6
    /\ game.pipe_gap >= 11
    /\ game.pipe_w >= 5
    /\ game.bird_x >= 10 * Unit
    /\ game.pipe_spacing >= 28 * Unit
    /\ 100 * game.pipe_speed >= 88 * Unit

\* C10, of the constants alone
C10_ConstantsAtMinimum ==
    /\ game.ground_h >= 6
    /\ game.pipe_gap >= 11
    /\ game.pipe_w >= 5
    /\ game.bird_x >= 10 * Unit
    /\ game.pipe_spacing >= 28 * Unit
    /\ 100 * game.pipe_speed >= 88 * Unit

\* C14: after any sequence of tune, flap, update and resize calls the
\* gravity is at least 0.05 x scale, the flap impulse at most -0.5 x scale
\* and the pipe speed at least 0.2 x base, base = max(pw / 80, 0.8).
C14_TuningFloors ==
    /\ 100 * game.gravity >= 5 * game.scale
    /\ 100 * game.flap_vel <= -50 * game.scale
    /\ 100 * game.pipe_speed >= 20 * SpeedBase(game)

\* a game in play whose gravity and impulse were both tuned past their
\* floors and stand on them
C14_Witness ==
    /\ op.name = "update"
    /\ game.state = "Playing"
    /\ tunes = 2
    /\ game.scale > 0
    /\ 100 * game.gravity = 5 * game.scale
    /\ 100 * game.flap_vel = -50 * game.scale

\* C15: once a tuning call has been made, show_hud is true in every later
\* state, whatever flap, update, resize or tuning calls follow (stated of
\* the states reached without an arithmetic fault).
C15_OverlayStaysOn == (tunes > 0 /\ fault = "none") => game.show_hud

\* C15, of the calls that do not rebuild the struct: show_hud, once true,
\* stays true over every call but a resize and a flap made in Dead
C15_OverlayUntilRebuild ==
    [][ (game.show_hud /\ op'.name # "resize"
                       /\ ~(op'.name = "flap" /\ game.state = "Dead"))
        => game'.show_hud ]_vars

\* C16: best never decreases, whatever the calls, and in every Dying or
\* Dead state best is at least score.
C16_BestNeverDecreases ==
    /\ [][ game'.best >= game.best ]_vars
    /\ [](game.state \in {"Dying", "Dead"} => game.best >= game.score)

\* a death with a score, in a life after one with a higher score
C16_Witness ==
    /\ op.name = "update"
    /\ op.from = "Playing"
    /\ game.state = "Dying"
    /\ game.score > 0
    /\ game.best > game.score

Between(x, v, y) == (x <= v /\ v <= y) \/ (y <= v /\ v <= x)

\* the result of the call is, in each channel, between a's and b's value,
\* no nearer to a than the result for any smaller parameter, and was in
\* 0..255 before the cast to u8
LerpMonotonic ==
    \A c \in 1..3 :
        /\ Between(mix.a[c], mix.out[c], mix.b[c])
        /\ LerpRaw(mix.a[c], mix.b[c], mix.t) \in 0..255
        /\ \A u \in 0..mix.t :
              Between(mix.a[c], lerp(mix.a, mix.b, u)[c], mix.out[c])

\* C17: lerp(a, b, 0) = a; lerp(a, b, t) at the maximum parameter of the
\* range [0, 256), t = 255, is b; and each channel is monotonic in t between
\* a's and b's value and never leaves the 8-bit range.
C17_LerpEndsOfRange ==
    mix.out # <<>>
    => /\ mix.t = 0 => mix.out = mix.a
       /\ mix.t = 255 => mix.out = mix.b
       /\ LerpMonotonic

\* C17, amended: lerp(a, b, 0) = a; lerp(a, b, 256) = b, 256 being the
\* largest parameter passed; at t = 255 a channel in which a and b differ
\* is one short of b's value, on a's side; and each channel is monotonic in
\* t between a's and b's value and never leaves the 8-bit range.
C17_LerpEndsAtScale ==
    mix.out # <<>>
    => /\ mix.t = 0 => mix.out = mix.a
       /\ mix.t = MaxParam => mix.out = mix.b
       /\ mix.t = 255
          => \A c \in 1..3 :
                mix.out[c] = CASE mix.a[c] < mix.b[c] -> mix.b[c] - 1
                               [] mix.a[c] > mix.b[c] -> mix.b[c] + 1
                               [] OTHER -> mix.b[c]
       /\ LerpMonotonic

\* a call at the largest parameter, between colours of which one channel
\* rises and another falls
C17_Witness ==
    /\ mix.t = MaxParam
    /\ mix.a[1] < mix.b[1]
    /\ mix.a[3] > mix.b[3]
    /\ mix.out = mix.b

\* the step is a pass of render()'s column loop
CellStep == rend.pc = "cell" /\ rend'.pc \in {"cell", "eol"}

\* the upper and the lower pixel of the cell render() stands at
TopPixel == get(buf, rend.col, rend.row * 2)
BotPixel == get(buf, rend.col, rend.row * 2 + 1)

\* C11: for every cell, when render() prints the cell's glyph the colours
\* in force in the terminal show the cell: the background is the lower
\* pixel; if the two pixels differ the glyph is the upper half block and the
\* foreground is the upper pixel; if they are equal the glyph is a space. The
\* glyph is the last directive of the cell, after its colours. This holds in
\* every row, the first cell after a reset and newline included.
C11_GlyphShowsPixels ==
    [][ CellStep
        => LET ds == rend'.sent
               glyph == ds[Len(ds)].k
           IN  /\ \A i \in 1..(Len(ds) - 1) : ds[i].k \in {"fg", "bg"}
               /\ term'.bg = BotPixel
               /\ TopPixel # BotPixel => (glyph = "upper" /\ term'.fg = TopPixel)
               /\ TopPixel = BotPixel => glyph = "space" ]_vars

\* the first cell of the second row has been printed, with two different
\* pixels that are those of the cell printed last before the reset
C11_Witness ==
    /\ rend.pc \in {"cell", "eol"}
    /\ rend.row = 1
    /\ rend.col = 1
    /\ get(buf, 0, 2) # get(buf, 0, 3)
    /\ get(buf, 0, 2) = get(buf, buf.w - 1, 0)
    /\ get(buf, 0, 3) = get(buf, buf.w - 1, 1)
    /\ term.fg = get(buf, 0, 2)
    /\ term.bg = get(buf, 0, 3)

\* the number of directives of kind k among ds
Kinds(ds, k) == Cardinality({i \in 1..Len(ds) : ds[i].k = k})

\* C12: render() queues no redundant colour directive: a step queues at
\* most one foreground and one background directive, each for a colour that
\* is not in force (after a reset none is); a cell of two equal pixels
\* queues no foreground directive; and a call queues the cursor-home
\* directive exactly once, first.
C12_NoRedundantDirective ==
    /\ [][ rend' # rend
           => LET ds == rend'.sent IN
              /\ Kinds(ds, "fg") <= 1
              /\ Kinds(ds, "bg") <= 1
              /\ \A i \in 1..Len(ds) :
                    /\ ds[i].k = "fg" => term.fg # ds[i].c
                    /\ ds[i].k = "bg" => term.bg # ds[i].c ]_vars
    /\ [][ (CellStep /\ TopPixel = BotPixel)
           => Kinds(rend'.sent, "fg") = 0 ]_vars
    /\ [][ (rend' # rend /\ Homes(rend'.sent) > 0)
           => (rend.pc = "idle" /\ rend'.sent[1].k = "home") ]_vars
    /\ [](rend.pc \in {"cell", "eol", "end"} => rend.homes = 1)

\* the second cell of a row shows the pixels of the first, two different
\* colours, and was printed with no colour directive
C12_Witness ==
    /\ rend.pc = "eol"
    /\ rend.col = 2
    /\ get(buf, 0, rend.row * 2) # get(buf, 0, rend.row * 2 + 1)
    /\ get(buf, 1, rend.row * 2) = get(buf, 0, rend.row * 2)
    /\ get(buf, 1, rend.row * 2 + 1) = get(buf, 0, rend.row * 2 + 1)
    /\ Len(rend.sent) = 1
    /\ rend.sent[1].k = "upper"

\* C13 as stated: in a frame that has come to its render step every event
\* the simulation returned during the frame (to flap keys and to update) has
\* been handed to its play_* function, once and in the order of emission,
\* and event_buf is empty.
C13_EveryEventPlayed ==
    main.pc = "render" =>
        main.played = main.emitted /\ main.event_buf = <<>>

\* C13, amended: while input is polled event_buf holds the events of the
\* frame in progress and nothing else, none of them dispatched yet; at the
\* render step event_buf is empty and, when an audio device was opened, the
\* events of the frame have been dispatched once each in the order of
\* emission; without a device none has been dispatched.
C13_PlayedWhenDeviceOpen ==
    /\ main.pc = "poll" =>
          main.event_buf = main.emitted /\ main.played = <<>>
    /\ main.pc = "render" =>
          /\ main.event_buf = <<>>
          /\ main.played = IF main.audio THEN main.emitted ELSE <<>>

\* a frame with a device in which a flap key and update each emitted an
\* event, of different kinds, both dispatched
C13_Witness ==
    /\ main.pc = "render"
    /\ main.audio
    /\ Len(main.played) >= 2
    /\ main.played[1] = "Flap"
    /\ main.played[Len(main.played)] # "Flap"

\* the pixel buffer is w x h cells
WellFormed(b) == b.h % 2 = 0 /\ Len(b.px) = b.w * b.h

\* C18: in every frame of the loop the PixelBuf has the simulation's
\* dimensions, an even height and w x h cells, so that the get calls of
\* render() (x < w, y < 2 * (h / 2)) and of the game-over overlay (x < pw,
\* y < ph) index inside the Vec, and a set call with a coordinate out of
\* range leaves the PixelBuf as it is.
C18_RasterMatchesGame ==
    main.pc \in {"poll", "render"} =>
        /\ buf.w = game.pw /\ buf.h = game.ph
        /\ WellFormed(buf)
        /\ \A x \in 0..(buf.w - 1), y \in 0..((buf.h \div 2) * 2 - 1) :
              GetInBounds(buf, x, y)
        /\ \A x \in 0..(game.pw - 1), y \in 0..(game.ph - 1) :
              GetInBounds(buf, x, y)
        /\ \A x \in -2..(buf.w + 2), y \in -2..(buf.h + 2), c \in Palette :
              ~(x \in 0..(buf.w - 1) /\ y \in 0..(buf.h - 1))
                  => set(buf, x, y, c) = buf

\* a frame, after a resize to three rows, in which the game-over screen was
\* drawn over a buffer of two columns, the bird's column being off screen
C18_Witness ==
    /\ main.pc = "render"
    /\ buf.h = 6 /\ buf.w = 2
    /\ GameOverDrawn(game)
    /\ AsI32(game.bird_x) >= buf.w

\* C19 as stated: main has returned from the frame loop only after the
\* cleanup closure was called.
C19_CleanupBeforeReturn ==
    main.pc \in {"returned_ok", "returned_err"} => main.cleanup

\* The arithmetic of C21 done on bits, least significant first, from the
\* decimal constants: a number below 2^64 is a sequence of 64 bits. The
\* recursions over the bits halve their range.

\* the groups of six decimal digits, least significant first, of the number
\* groups divided by 256, and that division's remainder
Over256(groups) ==
    LET r4 == groups[4] % 256
        n3 == r4 * 1000000 + groups[3]
        n2 == (n3 % 256) * 1000000 + groups[2]
        n1 == (n2 % 256) * 1000000 + groups[1]
    IN  [q |-> <<n1 \div 256, n2 \div 256, n3 \div 256, groups[4] \div 256>>,
         r |-> n1 % 256]

RECURSIVE DecimalBytes(_, _)
\* the lowest n bytes of the number whose decimal digits, in groups of six
\* from the least significant, are groups
DecimalBytes(groups, n) ==
    IF n = 0 THEN <<>>
    ELSE CHOOSE bytes \in
           {<<d.r>> \o DecimalBytes(d.q, n - 1) : d \in {Over256(groups)}} : TRUE

\* the bits of a u64 given in limbs
LimbBits(x) == [i \in 1..64 |-> (x[((i - 1) \div 8) + 1] \div (2 ^ ((i - 1) % 8))) % 2]

\* the lowest 64 bits of the number whose decimal digits are groups
DecimalBits(groups) == LimbBits(DecimalBytes(groups, 8))

\* 6364136223846793005 and 1442695040888963407
Multiplier == DecimalBits(<<793005, 223846, 364136, 6>>)
Increment == DecimalBits(<<963407, 40888, 442695, 1>>)

\* column i of the product of a and m written out bit by bit: the number of
\* pairs of a one of m and a one of a whose weights multiply to 2^(i - 1)
Columns(a, m) ==
    [i \in 1..64 |-> Cardinality({j \in 1..i : m[j] = 1 /\ a[i - j + 1] = 1})]

RECURSIVE CarryOver(_, _, _, _)
\* the bits lo..hi of the number whose columns are cols, with carry c into
\* column lo, and the carry out of column hi
CarryOver(cols, lo, hi, c) ==
    IF lo = hi
    THEN [bits |-> <<(cols[lo] + c) % 2>>, carry |-> (cols[lo] + c) \div 2]
    ELSE CHOOSE r \in
           {[bits |-> halves[1].bits \o halves[2].bits, carry |-> halves[2].carry] :
              halves \in
                {<<low, CarryOver(cols, (lo + hi) \div 2 + 1, hi, low.carry)>> :
                   low \in {CarryOver(cols, lo, (lo + hi) \div 2, c)}}} : TRUE

\* (a * Multiplier + Increment) modulo 2^64
Stepped(a) ==
    CHOOSE x \in
        {CarryOver([i \in 1..64 |-> cols[i] + Increment[i]], 1, 64, 0).bits :
           cols \in {Columns(a, Multiplier)}} : TRUE

\* 2^k modulo 1000, for k up to 32
TwoTo(k) == IF k <= 16 THEN (2 ^ k) % 1000
            ELSE (((2 ^ 16) % 1000) * ((2 ^ (k - 16)) % 1000)) % 1000

RECURSIVE Residue(_, _, _)
\* the bits lo..hi of b as a number, modulo 1000
Residue(b, lo, hi) ==
    IF lo = hi THEN b[lo]
    ELSE CHOOSE k \in
           {(low + TwoTo((lo + hi) \div 2 - lo + 1) * high) % 1000 :
              low \in {Residue(b, lo, (lo + hi) \div 2)},
              high \in {Residue(b, (lo + hi) \div 2 + 1, hi)}} : TRUE

\* k = ((x >> 33) xor x) mod 1000, x = (seed * Multiplier + Increment) mod 2^64
FormulaK(seed) ==
    CHOOSE k \in
        {Residue([i \in 1..64 |->
                     (x[i] + (IF i + 33 <= 64 THEN x[i + 33] ELSE 0)) % 2], 1, 64) :
           x \in {Stepped(LimbBits(seed))}} : TRUE

\* C21: every call of pseudo_rand returns k / 1000 for an integer k in
\* 0..999, k being ((x >> 33) xor x) mod 1000 for x = (seed x
\* 6364136223846793005 + 1442695040888963407) mod 2^64; two calls on one
\* seed return the same value.
C21_RandIsTheFormula ==
    \A i \in 1..Len(rng.outs) :
        rng.outs[i] \in 0..999 /\ rng.outs[i] = FormulaK(rng.seed)

\* pseudo_rand called twice on the seed 2^64 - 1, returning 0.986 both times
C21_Witness ==
    /\ rng.seed = [i \in Bytes |-> 255]
    /\ rng.outs = <<986, 986>>

\* the box of the bird and the gap of pipe p, as the claims name them
BoxTop(g) == g.bird_y - (15 * g.scale) \div 10
BoxBottom(g) == g.bird_y + (15 * g.scale) \div 10
BoxLeft(g) == g.bird_x - 2 * g.scale
BoxRight(g) == g.bird_x + 2 * g.scale
GapTop(g, p) == p.gap_center - (g.pipe_gap * Unit) \div 2
GapBottom(g, p) == p.gap_center + (g.pipe_gap * Unit) \div 2

\* the box is over pipe p (more than touching it) and not inside its gap
Strikes(g, p) ==
    /\ BoxRight(g) > p.x /\ BoxLeft(g) < p.x + g.pipe_w * Unit
    /\ ~(GapTop(g, p) <= BoxTop(g) /\ BoxBottom(g) <= GapBottom(g, p))

Collided == op.name = "check_collision"

\* C22 as stated: check_collision returns true exactly when the vertical
\* extent of the box is not inside [0, sky_h] or an obstacle overlaps the
\* box horizontally while the box is not inside that obstacle's gap.
C22_TrueIffOutside ==
    Collided =>
        events[1] = \/ BoxTop(game) < 0
                    \/ BoxBottom(game) > sky_h(game)
                    \/ \E i \in 1..Len(game.pipes) : Strikes(game, game.pipes[i])

\* C22, amended: check_collision returns true exactly when the top of the
\* box is above 0, or its bottom is at or below the ground line sky_h, or an
\* obstacle overlaps the box horizontally by more than an edge while the box
\* is not inside that obstacle's gap, edges included; it returns false when
\* the box is inside the sky clear of the ground line and the bird is
\* centred, with more than half its height of clearance, in the gap of every
\* obstacle.
C22_TrueIffOutsideOrOnGround ==
    Collided =>
        /\ events[1] = \/ BoxTop(game) < 0
                       \/ BoxBottom(game) >= sky_h(game)
                       \/ \E i \in 1..Len(game.pipes) :
                             Strikes(game, game.pipes[i])
        /\ ( /\ BoxTop(game) >= 0 /\ BoxBottom(game) < sky_h(game)
             /\ \A i \in 1..Len(game.pipes) :
                   /\ game.bird_y = game.pipes[i].gap_center
                   /\ (game.pipe_gap * Unit) \div 2 > (15 * game.scale) \div 10 )
           => events[1] = FALSE

\* the test returned true on a box resting on the ground line, the bird
\* being across a pipe and centred in its gap
C22_Witness ==
    /\ Collided
    /\ events[1] = TRUE
    /\ BoxBottom(game) = sky_h(game)
    /\ Len(game.pipes) = 1
    /\ game.pipes[1].x = game.bird_x
    /\ ~Strikes(game, game.pipes[1])

\* the obstacles of the next state that are no obstacle of this state, where
\* it was or moved by one tick
NewObstacles ==
    {i \in 1..Len(game'.pipes) :
        ~\E j \in 1..Len(game.pipes) :
            /\ game'.pipes[i].gap_center = game.pipes[j].gap_center
            /\ game'.pipes[i].x \in {game.pipes[j].x,
                                      game.pipes[j].x - game.pipe_speed}}

\* an obstacle is due: the list is empty or its last obstacle is further
\* than pipe_spacing from the right edge
ObstacleDue ==
    \/ game.pipes = <<>>
    \/ game.pipes[Len(game.pipes)].x < game.pw * Unit - game.pipe_spacing

\* C23: every step adds as many obstacles as it emits Whoosh events: one,
\* at the end of the list, when it is a Playing tick and an obstacle is due,
\* none otherwise; and in every state the obstacles are in increasing x
\* order, consecutive ones more than pipe_spacing apart.
C23_SpawnWhenDue ==
    /\ [][ /\ Cardinality(NewObstacles) = Count(events', "Whoosh")
           /\ Count(events', "Whoosh") =
                 IF op'.name = "update" /\ op'.from = "Playing" /\ ObstacleDue
                 THEN 1 ELSE 0
           /\ NewObstacles \subseteq {Len(game'.pipes)} ]_vars
    /\ [](\A i \in 1..(Len(game.pipes) - 1) :
             game.pipes[i + 1].x - game.pipes[i].x > game.pipe_spacing)

\* the tick that spawned a second obstacle behind the first
C23_Witness ==
    /\ op.name = "update" /\ op.from = "Playing"
    /\ Count(events, "Whoosh") = 1
    /\ Len(game.pipes) = 2

\* a Playing tick
PlayingTick == op'.name = "update" /\ op'.from = "Playing"

\* C24: the events of a Playing tick are Whoosh (at most one), then one
\* Score for each point gained in the tick, then Death (at most one); Death
\* is returned exactly when check_collision holds of the struct the tick
\* leaves behind (bird and obstacles moved, obstacles spawned, scored and
\* removed), and then the state is Dying and best is the larger of the old
\* best and the score with the points of this tick.
C24_CollisionTestedLast ==
    [][PlayingTick =>
         LET whoosh == Count(events', "Whoosh")
             death == Count(events', "Death")
         IN  /\ whoosh <= 1 /\ death <= 1
             /\ game'.score >= game.score
             /\ events' = (IF whoosh = 1 THEN <<"Whoosh">> ELSE <<>>)
                          \o ScoreEvents(game'.score - game.score)
                          \o (IF death = 1 THEN <<"Death">> ELSE <<>>)
             /\ death = 1 <=> check_collision(game')
             /\ death = 1 <=> game'.state = "Dying"
             /\ death = 1 => game'.best = Max(game.best, game'.score)
             /\ death = 0 => game'.best = game.best]_vars

\* a tick that spawned an obstacle, scored it and ended in the collision,
\* the point being the best score
C24_Witness ==
    /\ op.name = "update" /\ op.from = "Playing"
    /\ events = <<"Whoosh", "Score", "Death">>
    /\ game.score = 1 /\ game.best = 1

\* Game::new or resize has returned
Rebuilt == op.name \in {"new", "resize"} /\ fault # "panic"

Physical ==
    {"gravity", "flap_vel", "pipe_speed", "pipe_gap", "pipe_w", "pipe_spacing"}

\* C26 as stated: every update() and every flap(), in any state, leaves
\* gravity, flap_vel, pipe_speed, pipe_gap, pipe_w and pipe_spacing as they
\* were.
C26_OnlyResizeAndTuningChange ==
    [][op'.name \in {"flap", "update"}
         => \A k \in Physical : game'[k] = game[k]]_vars

\* C26, of the calls that do not restart the game: every update() and every
\* flap() made in Ready, Playing or Dying leaves the six constants as they
\* were, and a flap() made in Dead leaves them at the values Game::new gives
\* for the resolution.
C26_RestartRecomputes ==
    [][op'.name \in {"flap", "update"}
         => \A k \in Physical :
               game'[k] = IF op'.name = "flap" /\ op'.from = "Dead"
                          THEN NewFields(game.pw, game.ph)[k]
                          ELSE game[k]]_vars

\* the state changes C27 allows, each with the call that makes it
Changes ==
    { <<"Ready", "flap", "Playing">>, <<"Playing", "update", "Dying">>,
      <<"Dying", "update", "Dead">>, <<"Dead", "flap", "Ready">> }
    \cup {<<s, "resize", "Ready">> : s \in {"Playing", "Dying", "Dead"}}

\* C27: the state is one of Ready, Playing, Dying and Dead, and a step that
\* changes it is a flap from Ready to Playing, an update from Playing to
\* Dying or from Dying to Dead, a flap from Dead to Ready or a resize to
\* Ready; so update leaves Ready and Dead, flap leaves Playing and Dying and
\* the tuning calls leave every state as it is, and Playing is left only for
\* Dying or by a resize.
C27_OnlyFiveChanges ==
    /\ [](game.state \in {"Ready", "Playing", "Dying", "Dead"})
    /\ [][ /\ game'.state # game.state
              => <<game.state, op'.name, game'.state>> \in Changes
           /\ (op'.name = "update" /\ game.state \in {"Ready", "Dead"})
              => game'.state = game.state
           /\ (op'.name = "flap" /\ game.state \in {"Playing", "Dying"})
              => game'.state = game.state
           /\ op'.name \in {"tune_gravity", "tune_flap", "tune_speed"}
              => game'.state = game.state
           /\ (game.state = "Playing" /\ op'.name # "resize")
              => game'.state \in {"Playing", "Dying"} ]_vars

\* a game tuned while it was played, and restarted by a flap after its Dead
\* state was reached
C27_Witness ==
    /\ op.name = "flap" /\ op.from = "Dead"
    /\ game.state = "Ready"
    /\ game.best > 0
    /\ tunes > 0

\* the fields of the Game struct
Fields == DOMAIN NewFields(0, 0)

\* the fields other than ks are in the next state what they are in this one
OnlyChanges(ks) == \A k \in Fields \ ks : game'[k] = game[k]

\* C28: an update() in Dying or Dead returns no event and leaves the
\* obstacle list, score, best and ground_x as they were; in Dead it changes
\* nothing but frame and dead_timer; in Ready it returns no event and leaves
\* bird_vy, score, best and the obstacle list as they were. In every Ready
\* state the score is 0 and the obstacle list is empty.
C28_IdleTicks ==
    /\ [](game.state = "Ready" => game.score = 0 /\ game.pipes = <<>>)
    /\ [][op'.name = "update" =>
            /\ op'.from \in {"Dying", "Dead"} =>
                  /\ events' = <<>>
                  /\ \A k \in {"pipes", "score", "best", "ground_x"} :
                        game'[k] = game[k]
            /\ op'.from = "Dead" => OnlyChanges({"frame", "dead_timer"})
            /\ op'.from = "Ready" =>
                  /\ events' = <<>>
                  /\ \A k \in {"bird_vy", "score", "best", "pipes"} :
                        game'[k] = game[k]]_vars

\* a Dead tick of a game that ended with a point scored and an obstacle on
\* the list, the tick before having been a Dead tick too
C28_Witness ==
    /\ op.name = "update" /\ op.from = "Dead"
    /\ game.dead_timer >= 2
    /\ game.score > 0
    /\ game.pipes # <<>>

====
